---- MODULE Spec2Model ----
(***************************************************************************)
(* A model of the Google mailbox synchronisation code of waveboxapp:       *)
(* GoogleHTTP (src/unnamed/part_002), the thin request wrappers around the *)
(* Gmail API and the reconciliation of thread headers against the threads  *)
(* a mailbox already knows.                                                *)
(*                                                                         *)
(* JavaScript values are tagged records ([type |-> ...]) so that values of *)
(* different JavaScript types can be compared. A JavaScript string is the  *)
(* tuple of its characters. A promise is a record [state, value].          *)
(***************************************************************************)
EXTENDS Integers, Sequences, FiniteSets, TLC

VARIABLES
  auth,              \* the auth argument of the running call
  knownThreads,      \* reconcile: the caller's cache, thread id -> thread
  threadHeaders,     \* reconcile: the listed headers, in provider order
  postProcessThread, \* reconcile: the optional post-process function
  pc,                \* reconcile: "idle", "fetching" or "done"
  changedThreadIds,  \* reconcile: the ids handed to fetchMultipleGmailThreads
  fetches,           \* reconcile: the promise of each fetchGmailThread call
  outcome,           \* reconcile: the promise fullyResolveGmailThreadHeaders returned
  settleOrder,       \* reconcile: the fetches in the order the network answered them
  again,             \* reconcile: the call repeated with the output of the first as cache
  call,              \* client: the operation in flight and its arguments
  result,            \* client: the promise the operation returned
  requests,          \* the requests handed to the Google API library by the running call
  now,               \* the clock new Date() reads, in milliseconds
  upgrade,           \* auth: the token exchange in flight
  upgradeResult,     \* auth: the promise upgradeAuthCodeToPermenant returned
  atom,              \* atom: the feed fetch in flight
  atomResult,        \* atom: the promise the feed fetch returned
  compose,           \* emblink store: this.compose
  open,              \* emblink store: this.open
  dispatch,          \* emblink store: the action last dispatched, and whether change was emitted
  loaded,            \* emblink store: whether a LOAD has replaced compose or open
  mailbox,           \* reducer: the mailbox the reducers are given
  change,            \* reducer: what the last reducer returned
  applied            \* reducer: the reducers called so far, in order

vars == <<auth, knownThreads, threadHeaders, postProcessThread, pc,
          changedThreadIds, fetches, outcome, settleOrder, again, call, result,
          requests, now, upgrade, upgradeResult, atom, atomResult,
          compose, open, dispatch, loaded, mailbox, change, applied>>

reconcileVars == <<knownThreads, threadHeaders, postProcessThread, pc,
                   changedThreadIds, fetches, outcome, settleOrder, again>>

clientVars == <<call, result>>

upgradeVars == <<upgrade, upgradeResult>>

atomVars == <<atom, atomResult>>

emblinkVars == <<compose, open, dispatch, loaded>>

reducerVars == <<mailbox, change, applied>>

(***************************************************************************)
(* Bounds                                                                  *)
(***************************************************************************)
MaxHeaders == 2

ThreadIds == {"A", "B"}

HistoryIds == {"1", "2"}

(***************************************************************************)
(* JavaScript values                                                       *)
(***************************************************************************)
JSUndefined == [type |-> "undefined"]

JSNull == [type |-> "null"]

JSString(chars) == [type |-> "string", chars |-> chars]

JSNumber(n) == [type |-> "number", value |-> n]

\* !v for the values the model uses: undefined, null and the empty string
Falsy(v) == \/ v.type \in {"undefined", "null"}
            \/ (v.type = "string" /\ v.chars = <<>>)

\* obj[key] of a plain object: undefined when the key is absent
Lookup(obj, key) == IF key \in DOMAIN obj THEN obj[key] ELSE JSUndefined

\* {}: an object with no keys
EmptyObject == [k \in {} |-> JSUndefined]

\* String.prototype.startsWith
StartsWith(chars, prefix) ==
  /\ Len(chars) >= Len(prefix)
  /\ SubSeq(chars, 1, Len(prefix)) = prefix

RECURSIVE ToDecimal(_)
\* the decimal digits a template literal writes for a non-negative integer
ToDecimal(n) ==
  LET digit == <<"0", "1", "2", "3", "4", "5", "6", "7", "8", "9">>
  IN IF n < 10 THEN <<digit[n + 1]>>
     ELSE ToDecimal(n \div 10) \o <<digit[(n % 10) + 1]>>

Range(s) == {s[i] : i \in DOMAIN s}

SeqsUpTo(S, n) == UNION {[1..k -> S] : k \in 0..n}

(***************************************************************************)
(* Promises and errors                                                     *)
(***************************************************************************)
Pending == [state |-> "pending", value |-> JSUndefined]

Fulfilled(v) == [state |-> "fulfilled", value |-> v]

Rejected(e) == [state |-> "rejected", value |-> e]

\* new Error(message): an Error made by this code has no code property
NewError(chars) == [type |-> "error", message |-> JSString(chars), code |-> JSUndefined]

NoAuthMessage == <<"M","a","i","l","b","o","x"," ","m","i","s","s","i","n","g"," ","a","u","t","h","e","n","t","i","c","a","t","i","o","n"," ","i","n","f","o","r","m","a","t","i","o","n">>

rejectWithNoAuth == Rejected(NewError(NoAuthMessage))

InvalidStatusPrefix == <<"I","n","v","a","l","i","d"," ","H","T","T","P"," ","s","t","a","t","u","s"," ","c","o","d","e"," ">>

\* new Error(`Invalid HTTP status code ${res.status}`)
InvalidStatusError(status) == NewError(InvalidStatusPrefix \o ToDecimal(status))

StatusOK == 200

(***************************************************************************)
(* Auth                                                                    *)
(***************************************************************************)
Tokens == {JSNull, JSString(<<"t">>)}

generateAuth(accessToken, refreshToken, expiryTime) ==
  [type |-> "OAuth2",
   credentials |-> [access_token |-> accessToken,
                    refresh_token |-> refreshToken,
                    expiry_date |-> expiryTime]]

\* what the network answers: a response the library resolves with, or a
\* rejection of the library's promise
Response(status, data) == [kind |-> "response", status |-> status, data |-> data]

Rejection(ex) == [kind |-> "rejection", ex |-> ex]

(***************************************************************************)
(* Threads                                                                 *)
(***************************************************************************)
ThreadHeader(id, historyId) == [id |-> id, historyId |-> historyId]

Thread(id, historyId, origin) ==
  [type |-> "thread", id |-> id, historyId |-> historyId,
   latestMessage |-> origin, processed |-> 0]

Headers == {ThreadHeader(id, h) : id \in ThreadIds, h \in HistoryIds}

\* a cache is keyed by the id of the thread it holds
KnownCaches ==
  UNION {{[x \in ids |-> Thread(x, hs[x], "known")] : hs \in [ids -> HistoryIds]}
           : ids \in SUBSET ThreadIds}

\* the caller's function leaves id and historyId intact (line 300)
ApplyPostProcess(thread) == [thread EXCEPT !.processed = @ + 1]

\* gmail.users.threads.get resolved with status 200 carries the thread asked for
OKStatusData(threadId) == {Thread(threadId, h, "fetched") : h \in HistoryIds}

ServerError == [type |-> "error", message |-> JSString(<<"B","a","c","k","e","n","d">>),
                code |-> JSNumber(500)]

ThreadTransports(threadId) ==
  {Response(StatusOK, d) : d \in OKStatusData(threadId)}
    \cup {Response(204, JSUndefined), Rejection(ServerError)}

\* fetchGmailThreadThen taking every 2xx status for a success
fetchGmailThreadThenAny2xx(res) ==
  IF res.status \in 200..299 THEN Fulfilled(res.data)
  ELSE Rejected(InvalidStatusError(res.status))

\* fetchGmailThread, lines 274-280: the handler of the library's response
fetchGmailThreadThen(res) ==
  IF res.status = StatusOK THEN Fulfilled(res.data)
  ELSE Rejected(InvalidStatusError(res.status))

\* the promise fetchGmailThread returns once the network has answered
fetchGmailThreadSettle(t) ==
  IF t.kind = "response" THEN fetchGmailThreadThen(t) ELSE Rejected(t.ex)

\* IsChanged without the comparison of the historyIds
IsChangedAbsentOnly(known, threadHeader) ==
  Falsy(Lookup(known, threadHeader.id))

\* IsChanged taking every header for changed
IsChangedAlways(known, threadHeader) == TRUE

\* lines 305-308: the filter of fullyResolveGmailThreadHeaders
IsChanged(known, threadHeader) ==
  LET k == Lookup(known, threadHeader.id)
  IN Falsy(k) \/ k.historyId # threadHeader.historyId

RECURSIVE Filter(_, _)
\* Array.prototype.filter with the predicate of lines 305-308
Filter(known, headers) ==
  IF headers = <<>> THEN <<>>
  ELSE (IF IsChanged(known, Head(headers)) THEN <<Head(headers)>> ELSE <<>>)
         \o Filter(known, Tail(headers))

\* lines 304-309
ChangedThreadIds(known, headers) ==
  LET kept == Filter(known, headers)
  IN [i \in DOMAIN kept |-> kept[i].id]

RECURSIVE Reduce(_, _, _)
\* lines 314-317: threads.reduce into an object keyed by thread.id
Reduce(acc, threads, postProcess) ==
  IF threads = <<>> THEN acc
  ELSE LET thread == Head(threads)
           v == IF Falsy(postProcess) THEN thread ELSE ApplyPostProcess(thread)
           next == [k \in DOMAIN acc \cup {thread.id} |->
                      IF k = thread.id THEN v ELSE acc[k]]
       IN Reduce(next, Tail(threads), postProcess)

\* Pick preferring the known thread
PickKnownFirst(updatedThreads, known, threadHeader) ==
  LET k == Lookup(known, threadHeader.id)
  IN IF Falsy(k) THEN Lookup(updatedThreads, threadHeader.id) ELSE k

\* updatedThreads[threadHeader.id] || knownThreads[threadHeader.id]
Pick(updatedThreads, known, threadHeader) ==
  LET u == Lookup(updatedThreads, threadHeader.id)
  IN IF Falsy(u) THEN Lookup(known, threadHeader.id) ELSE u

RECURSIVE Compact(_)
\* .filter((v) => !!v)
Compact(s) ==
  IF s = <<>> THEN <<>>
  ELSE (IF Falsy(Head(s)) THEN <<>> ELSE <<Head(s)>>) \o Compact(Tail(s))

\* Merge listing the fetched threads before the known ones
MergeFreshFirst(updatedThreads, known, headers) ==
  Compact([i \in DOMAIN headers |-> Lookup(updatedThreads, headers[i].id)])
    \o Compact([i \in DOMAIN headers |->
                  IF Falsy(Lookup(updatedThreads, headers[i].id))
                  THEN Lookup(known, headers[i].id) ELSE JSUndefined])

\* lines 319-323
Merge(updatedThreads, known, headers) ==
  Compact([i \in DOMAIN headers |-> Pick(updatedThreads, known, headers[i])])

\* ReduceSeed accumulating into the caller's knownThreads object
ReduceSeedKnown(known) == [ref |-> "knownThreads", obj |-> known]

\* line 317: the object reduce starts from and writes into, a fresh {}
ReduceSeed(known) == [ref |-> "fresh", obj |-> EmptyObject]

\* UpdatedThreads never calling the post-process function
UpdatedThreadsUnprocessed(threads, known, postProcess) ==
  Reduce(ReduceSeed(known).obj, threads, JSUndefined)

\* lines 314-317: updatedThreads
UpdatedThreads(threads, known, postProcess) ==
  Reduce(ReduceSeed(known).obj, threads, postProcess)

\* the caller's knownThreads object after lines 313-323: written only if it
\* is the object reduce writes into
KnownAfter(threads, known, postProcess) ==
  IF ReduceSeed(known).ref = "knownThreads"
  THEN UpdatedThreads(threads, known, postProcess)
  ELSE known

\* ResolveThreads reducing the threads in the order their fetches completed
ResolveThreadsInCompletionOrder(threads, known, headers, postProcess) ==
  LET arrived == [k \in DOMAIN threads |-> threads[settleOrder'[k]]]
  IN Merge(UpdatedThreads(arrived, known, postProcess),
           KnownAfter(arrived, known, postProcess), headers)

\* lines 313-323 applied to the array Promise.all resolved with
ResolveThreads(threads, known, headers, postProcess) ==
  Merge(UpdatedThreads(threads, known, postProcess),
        KnownAfter(threads, known, postProcess), headers)

(***************************************************************************)
(* Promise.all and the calls of the reconciliation                         *)
(***************************************************************************)
\* Promise.all over promises of which those rejected so far were rejected
\* with one reason: rejected as soon as one is, fulfilled with the values in
\* the order of the promises once all are
PromiseAll(promises) ==
  IF \E i \in DOMAIN promises : promises[i].state = "rejected"
  THEN LET first == CHOOSE i \in DOMAIN promises :
                      /\ promises[i].state = "rejected"
                      /\ \A j \in DOMAIN promises :
                           promises[j].state = "rejected" => i <= j
       IN Rejected(promises[first].value)
  ELSE IF \A i \in DOMAIN promises : promises[i].state = "fulfilled"
       THEN Fulfilled([i \in DOMAIN promises |-> promises[i].value])
       ELSE Pending

\* fetchGmailThread, lines 265-266: the promise returned before the network
\* answers; a pending one has handed its request to the library
fetchGmailThread(a, threadId) ==
  IF Falsy(a) THEN rejectWithNoAuth ELSE Pending

\* fetchMultipleGmailThreads testing the auth itself before it maps the ids
fetchMultipleGmailThreadsCheckingAuth(a, threadIds) ==
  IF Falsy(a) THEN <<rejectWithNoAuth>>
  ELSE [i \in DOMAIN threadIds |-> fetchGmailThread(a, threadIds[i])]

\* lines 289-293, the array Promise.all is given
fetchMultipleGmailThreads(a, threadIds) ==
  [i \in DOMAIN threadIds |-> fetchGmailThread(a, threadIds[i])]

ThreadGet(a, threadId) ==
  [api |-> "gmail.users.threads.get", id |-> threadId, auth |-> a]

\* the requests the promises of fetchMultipleGmailThreads have issued
ThreadRequests(a, threadIds, promises) ==
  LET RECURSIVE Issued(_)
      Issued(i) ==
        IF i > Len(threadIds) THEN <<>>
        ELSE (IF promises[i].state = "pending"
              THEN <<ThreadGet(a, threadIds[i])>> ELSE <<>>) \o Issued(i + 1)
  IN Issued(1)

\* lines 311-323: the chain on the promise of fetchMultipleGmailThreads
FullyResolveThen(all, known, headers, postProcess) ==
  IF all.state = "fulfilled"
  THEN Fulfilled(ResolveThreads(all.value, known, headers, postProcess))
  ELSE all

\* the caller calls fullyResolveGmailThreadHeaders: the filter, and every
\* microtask up to the first wait for the network
fullyResolveGmailThreadHeaders ==
  /\ pc = "idle"
  /\ LET ids == ChangedThreadIds(knownThreads, threadHeaders)
         promises == fetchMultipleGmailThreads(auth, ids)
         settled == FullyResolveThen(PromiseAll(promises), knownThreads,
                                     threadHeaders, postProcessThread)
         all == PromiseAll(promises)
     IN /\ changedThreadIds' = ids
        /\ fetches' = promises
        /\ settleOrder' = <<>>
        /\ requests' = ThreadRequests(auth, ids, promises)
        /\ outcome' = settled
        /\ knownThreads' = IF all.state = "fulfilled"
                           THEN KnownAfter(all.value, knownThreads, postProcessThread)
                           ELSE knownThreads
        /\ pc' = IF settled.state = "pending" THEN "fetching" ELSE "done"
  /\ UNCHANGED <<auth, threadHeaders, postProcessThread, again, clientVars, now,
                 upgradeVars, atomVars, emblinkVars, reducerVars>>

\* the network answers one fetch; Promise.all and the chain behind it run in
\* the same turn of the event loop
SettleFetch(i, t) ==
  /\ pc \in {"fetching", "done"}
  /\ fetches[i].state = "pending"
  /\ LET promises == [fetches EXCEPT ![i] = fetchGmailThreadSettle(t)]
         settled == IF outcome.state = "pending"
                    THEN FullyResolveThen(PromiseAll(promises), knownThreads,
                                          threadHeaders, postProcessThread)
                    ELSE outcome
         all == PromiseAll(promises)
     IN /\ fetches' = promises
        /\ settleOrder' = Append(settleOrder, i)
        /\ outcome' = settled
        /\ knownThreads' = IF outcome.state = "pending" /\ all.state = "fulfilled"
                           THEN KnownAfter(all.value, knownThreads, postProcessThread)
                           ELSE knownThreads
        /\ pc' = IF settled.state = "pending" THEN "fetching" ELSE "done"
  /\ UNCHANGED <<auth, threadHeaders, postProcessThread, again,
                 changedThreadIds, requests, clientVars, now, upgradeVars, atomVars, emblinkVars, reducerVars>>

\* the call has not been repeated
NoAgain == [called |-> FALSE, requests |-> <<>>, outcome |-> Pending]

\* the output of a pass keyed by thread id, as the caller stores it for the
\* next pass
ReKey(threads) ==
  [id \in {threads[i].id : i \in DOMAIN threads} |->
     threads[CHOOSE i \in DOMAIN threads :
               /\ threads[i].id = id
               /\ \A j \in DOMAIN threads : threads[j].id = id => j <= i]]

\* the caller calls fullyResolveGmailThreadHeaders again with the same
\* headers and the output of the resolved pass as knownThreads: the filter,
\* the requests handed over and the promise returned
fullyResolveGmailThreadHeadersAgain ==
  /\ pc = "done"
  /\ outcome.state = "fulfilled"
  /\ ~again.called
  /\ LET known == ReKey(outcome.value)
         ids == ChangedThreadIds(known, threadHeaders)
         promises == fetchMultipleGmailThreads(auth, ids)
     IN again' = [called |-> TRUE,
                  requests |-> ThreadRequests(auth, ids, promises),
                  outcome |-> FullyResolveThen(PromiseAll(promises), known,
                                               threadHeaders, postProcessThread)]
  /\ UNCHANGED <<auth, knownThreads, threadHeaders, postProcessThread, pc,
                 changedThreadIds, fetches, outcome, settleOrder, requests,
                 clientVars, now, upgradeVars, atomVars, emblinkVars, reducerVars>>

NoAnswer == [kind |-> "none"]

\* no token exchange has been started
NoUpgrade == [phase |-> "none", sent |-> 0, read |-> 0, res |-> NoAnswer, at |-> 0]

\* no feed fetch has been started
NoAtom == [op |-> "none", res |-> NoAnswer, at |-> 0]

NoCall == [op |-> "none", answer |-> NoAnswer]

\* CoreEmblinkStore, lines 18-23
InitialCompose ==
  [active |-> FALSE, mailboxId |-> JSNull, serviceType |-> JSNull, payload |-> JSNull]

\* CoreEmblinkStore, lines 25-29
InitialOpen == [mailboxId |-> JSNull, serviceType |-> JSNull, payload |-> JSNull]

\* no action has been dispatched to the store
NoDispatch == [action |-> "none", data |-> EmptyObject, emitted |-> FALSE]

\* a mailbox as the reducers read it
Mailbox(isInvalid) == [isAuthenticationInvalid |-> isInvalid]

ValidAuth == generateAuth(JSString(<<"t">>), JSString(<<"t">>), JSNumber(0))

ReconcileAuths == {JSNull, ValidAuth}

PostProcessInputs == {JSUndefined, [type |-> "function"]}

InitReconcile ==
  /\ auth \in ReconcileAuths
  /\ knownThreads \in KnownCaches
  /\ threadHeaders \in SeqsUpTo(Headers, MaxHeaders)
  /\ postProcessThread \in PostProcessInputs
  /\ pc = "idle"
  /\ changedThreadIds = <<>>
  /\ fetches = <<>>
  /\ outcome = Pending
  /\ settleOrder = <<>>
  /\ again = NoAgain
  /\ call = NoCall
  /\ result = Pending
  /\ requests = <<>>
  /\ now = 0
  /\ upgrade = NoUpgrade
  /\ upgradeResult = Pending
  /\ atom = NoAtom
  /\ atomResult = Pending
  /\ compose = InitialCompose
  /\ open = InitialOpen
  /\ dispatch = NoDispatch
  /\ loaded = FALSE
  /\ mailbox = Mailbox(FALSE)
  /\ change = JSUndefined
  /\ applied = <<>>

NextReconcile ==
  \/ fullyResolveGmailThreadHeaders
  \/ fullyResolveGmailThreadHeadersAgain
  \/ \E i \in DOMAIN fetches :
       \E t \in ThreadTransports(changedThreadIds[i]) : SettleFetch(i, t)

SpecReconcile == InitReconcile /\ [][NextReconcile]_vars

(***************************************************************************)
(* The request wrappers: one call at a time, answered by the network       *)
(***************************************************************************)
PushClientPhrase == <<"O","n","l","y"," ","o","n","e"," ","u","s","e","r"," ","p","u","s","h"," ","n","o","t","i","f","i","c","a","t","i","o","n"," ","c","l","i","e","n","t"," ","a","l","l","o","w","e","d"," ","p","e","r"," ","d","e","v","e","l","o","p","e","r">>

\* an error the Google API library rejects with: its message and, when the
\* server answered, the HTTP status as its code
LibraryError(message, code) == [type |-> "error", message |-> message, code |-> code]

\* the rejection line 98 names: status 400, the message going on after the phrase
PushClientError == LibraryError(JSString(PushClientPhrase \o <<".">>), JSNumber(400))

Exceptions ==
  { PushClientError,
    LibraryError(JSString(PushClientPhrase), JSNumber(400)),
    LibraryError(JSString(SubSeq(PushClientPhrase, 1, Len(PushClientPhrase) - 1)), JSNumber(400)),
    LibraryError(JSString(<<" ">> \o PushClientPhrase), JSNumber(400)),
    LibraryError(JSString(<<>>), JSNumber(400)),
    LibraryError(JSUndefined, JSNumber(403)),
    LibraryError(JSString(<<"E","N","O","T","F","O","U","N","D">>), JSUndefined),
    ServerError,
    JSNull }

Payload == [type |-> "object", tag |-> "payload"]

Statuses == {StatusOK, 204, 304}

Transports == {Response(st, Payload) : st \in Statuses} \cup {Rejection(ex) : ex \in Exceptions}

ClientAuths ==
  {JSNull, JSUndefined} \cup {generateAuth(a, r, JSNumber(0)) : a \in Tokens, r \in Tokens}

\* watchAccountCatch taking any message for the tolerated one
watchAccountCatchAny(ex) ==
  IF ~Falsy(ex) /\ ex.message.type = "string"
  THEN Fulfilled(Response(StatusOK, EmptyObject))
  ELSE Rejected(ex)

\* lines 95-103: the catch on gmail.users.watch
watchAccountCatch(ex) ==
  IF /\ ~Falsy(ex)
     /\ ex.message.type = "string"
     /\ StartsWith(ex.message.chars, PushClientPhrase)
  THEN Fulfilled(Response(StatusOK, EmptyObject))
  ELSE Rejected(ex)

\* lines 105-111
watchAccountThen(res) ==
  IF res.status = StatusOK THEN Fulfilled(res.data)
  ELSE Rejected(InvalidStatusError(res.status))

\* lines 85-111: the promise watchAccount returns once the network has answered
watchAccountSettle(t) ==
  LET inner == IF t.kind = "response" THEN Fulfilled(t) ELSE watchAccountCatch(t.ex)
  IN IF inner.state = "fulfilled" THEN watchAccountThen(inner.value) ELSE inner

\* lines 128-134
fetchAccountProfileThen(res) ==
  IF res.status = StatusOK THEN Fulfilled(res.data)
  ELSE Rejected(InvalidStatusError(res.status))

\* lines 165-171
fetchGmailProfileThen(res) ==
  IF res.status = StatusOK THEN Fulfilled(res.data)
  ELSE Rejected(InvalidStatusError(res.status))

\* lines 189-195
fetchGmailHistoryListThen(res) ==
  IF res.status = StatusOK THEN Fulfilled(res.data)
  ELSE Rejected(InvalidStatusError(res.status))

\* lines 218-224
fetchGmailLabelThen(res) ==
  IF res.status = StatusOK THEN Fulfilled(res.data)
  ELSE Rejected(InvalidStatusError(res.status))

\* lines 250-256
fetchGmailThreadHeadersListThen(res) ==
  IF res.status = StatusOK THEN Fulfilled(res.data)
  ELSE Rejected(InvalidStatusError(res.status))

\* the promise an operation returns once the network has answered with t
Settle(op, t) ==
  IF op = "watchAccount" THEN watchAccountSettle(t)
  ELSE IF t.kind = "rejection" THEN Rejected(t.ex)
  ELSE CASE op = "fetchAccountProfile" -> fetchAccountProfileThen(t)
         [] op = "fetchGmailProfile" -> fetchGmailProfileThen(t)
         [] op = "fetchGmailHistoryList" -> fetchGmailHistoryListThen(t)
         [] op = "fetchGmailLabel" -> fetchGmailLabelThen(t)
         [] op = "fetchGmailThreadHeadersList" -> fetchGmailThreadHeadersListThen(t)
         [] op = "fetchGmailThread" -> fetchGmailThreadThen(t)

\* line 83
watchAccountGuard(a) == IF Falsy(a) THEN rejectWithNoAuth ELSE Pending

\* line 124
fetchAccountProfileGuard(a) == IF Falsy(a) THEN rejectWithNoAuth ELSE Pending

\* line 158
fetchGmailProfileGuard(a) == IF Falsy(a) THEN rejectWithNoAuth ELSE Pending

\* line 181
fetchGmailHistoryListGuard(a) == IF Falsy(a) THEN rejectWithNoAuth ELSE Pending

\* fetchGmailLabelGuard letting null through
fetchGmailLabelGuardUndefinedOnly(a) ==
  IF a.type = "undefined" THEN rejectWithNoAuth ELSE Pending

\* line 210
fetchGmailLabelGuard(a) == IF Falsy(a) THEN rejectWithNoAuth ELSE Pending

\* line 240
fetchGmailThreadHeadersListGuard(a) == IF Falsy(a) THEN rejectWithNoAuth ELSE Pending

\* the wrappers are called one at a time
NoCallInFlight == call.op = "none" \/ result.state # "pending"

\* a call of an operation: the promise it returns at once, and the request a
\* pending promise has handed to the library
Begin(op, api, a, promise) ==
  /\ auth' = a
  /\ call' = [op |-> op, answer |-> NoAnswer]
  /\ result' = promise
  /\ requests' = IF promise.state = "pending"
                 THEN <<[api |-> api, auth |-> a]>> ELSE <<>>
  /\ UNCHANGED <<reconcileVars, now, upgradeVars, atomVars, emblinkVars, reducerVars>>

watchAccount ==
  \E a \in ClientAuths :
    /\ NoCallInFlight
    /\ Begin("watchAccount", "gmail.users.watch", a, watchAccountGuard(a))

fetchAccountProfile ==
  \E a \in ClientAuths :
    /\ NoCallInFlight
    /\ Begin("fetchAccountProfile", "oauth2.userinfo.get", a, fetchAccountProfileGuard(a))

fetchGmailProfile ==
  \E a \in ClientAuths :
    /\ NoCallInFlight
    /\ Begin("fetchGmailProfile", "gmail.users.getProfile", a, fetchGmailProfileGuard(a))

fetchGmailHistoryList ==
  \E a \in ClientAuths :
    /\ NoCallInFlight
    /\ Begin("fetchGmailHistoryList", "gmail.users.history.list", a, fetchGmailHistoryListGuard(a))

fetchGmailLabel ==
  \E a \in ClientAuths :
    /\ NoCallInFlight
    /\ Begin("fetchGmailLabel", "gmail.users.labels.get", a, fetchGmailLabelGuard(a))

fetchGmailThreadHeadersList ==
  \E a \in ClientAuths :
    /\ NoCallInFlight
    /\ Begin("fetchGmailThreadHeadersList", "gmail.users.threads.list", a, fetchGmailThreadHeadersListGuard(a))

fetchGmailThreadCall ==
  \E a \in ClientAuths :
    /\ NoCallInFlight
    /\ Begin("fetchGmailThread", "gmail.users.threads.get", a, fetchGmailThread(a, "A"))

\* the network answers the request of the call in flight
Answer(t) ==
  /\ call.op # "none"
  /\ result.state = "pending"
  /\ call' = [call EXCEPT !.answer = t]
  /\ result' = Settle(call.op, t)
  /\ UNCHANGED <<auth, requests, reconcileVars, now, upgradeVars, atomVars, emblinkVars, reducerVars>>

InitClient ==
  /\ auth = JSUndefined
  /\ knownThreads = EmptyObject
  /\ threadHeaders = <<>>
  /\ postProcessThread = JSUndefined
  /\ pc = "idle"
  /\ changedThreadIds = <<>>
  /\ fetches = <<>>
  /\ outcome = Pending
  /\ settleOrder = <<>>
  /\ again = NoAgain
  /\ call = NoCall
  /\ result = Pending
  /\ requests = <<>>
  /\ now = 0
  /\ upgrade = NoUpgrade
  /\ upgradeResult = Pending
  /\ atom = NoAtom
  /\ atomResult = Pending
  /\ compose = InitialCompose
  /\ open = InitialOpen
  /\ dispatch = NoDispatch
  /\ loaded = FALSE
  /\ mailbox = Mailbox(FALSE)
  /\ change = JSUndefined
  /\ applied = <<>>

NextClient ==
  \/ watchAccount
  \/ fetchAccountProfile
  \/ fetchGmailProfile
  \/ fetchGmailHistoryList
  \/ fetchGmailLabel
  \/ fetchGmailThreadHeadersList
  \/ fetchGmailThreadCall
  \/ \E t \in Transports : Answer(t)

SpecClient == InitClient /\ [][NextClient]_vars

(***************************************************************************)
(* The token exchange and the credential built from its answer             *)
(***************************************************************************)
MaxClock == 3

\* new Date().getTime() moves on between the steps of the program
Tick ==
  /\ now < MaxClock
  /\ now' = now + 1
  /\ UNCHANGED <<auth, reconcileVars, clientVars, requests, upgradeVars, atomVars, emblinkVars, reducerVars>>

ExpiresIn == {1, 2}

\* the JSON object the token endpoint answers a good code with
TokenBody(e) ==
  [access_token |-> JSString(<<"a">>),
   refresh_token |-> JSString(<<"r">>),
   expires_in |-> JSNumber(e)]

\* the JSON object the token endpoint answers a bad code with
TokenErrorBody == [error |-> JSString(<<"i","n","v","a","l","i","d","_","g","r","a","n","t">>)]

JsonText(v) == [kind |-> "json", value |-> v]

NotJsonText == [kind |-> "text"]

\* a Response of window.fetch: ok is true for the statuses 200..299
FetchResponse(status, body) ==
  [kind |-> "response", ok |-> (status >= 200 /\ status <= 299),
   status |-> status, body |-> body]

\* window.fetch rejects with a TypeError when the request does not get through
NetworkError == [type |-> "error", message |-> JSString(<<"F","a","i","l","e","d"," ","t","o"," ","f","e","t","c","h">>), code |-> JSUndefined]

\* res.json() rejects with a SyntaxError when the body is not JSON
JsonSyntaxError == [type |-> "error", message |-> JSString(<<"U","n","e","x","p","e","c","t","e","d"," ","t","o","k","e","n">>), code |-> JSUndefined]

UpgradeTransports ==
  {FetchResponse(StatusOK, JsonText(TokenBody(e))) : e \in ExpiresIn}
    \cup {FetchResponse(StatusOK, NotJsonText),
          FetchResponse(400, JsonText(TokenErrorBody)),
          FetchResponse(500, NotJsonText),
          Rejection(NetworkError)}

\* res.json()
ResJson(res) ==
  IF res.body.kind = "json" THEN Fulfilled(res.body.value) ELSE Rejected(JsonSyntaxError)

\* Object.assign(target, source): the keys of both, source winning
ObjectAssign(target, source) ==
  [k \in DOMAIN target \cup DOMAIN source |->
     IF k \in DOMAIN source THEN source[k] ELSE target[k]]

\* UpgradeOkCheck handing every response on to the body parse
UpgradeOkCheckAlways(res) == Fulfilled(res)

\* line 68: res.ok ? Promise.resolve(res) : Promise.reject(res)
UpgradeOkCheck(res) == IF res.ok THEN Fulfilled(res) ELSE Rejected(res)

\* line 70: Object.assign({ date: new Date().getTime() }, res)
UpgradeAugment(body, time) == ObjectAssign([date |-> JSNumber(time)], body)

\* lines 52-67: the POST to the token endpoint is handed to window.fetch
upgradeAuthCodeToPermenant ==
  /\ upgrade.phase = "none"
  /\ upgrade' = [phase |-> "sent", sent |-> upgrade.sent + 1, read |-> 0,
                 res |-> NoAnswer, at |-> 0]
  /\ upgradeResult' = Pending
  /\ UNCHANGED <<auth, reconcileVars, clientVars, requests, now, atomVars, emblinkVars, reducerVars>>

\* window.fetch settles; line 68 runs on a response, line 69 starts the body read
UpgradeRespond(t) ==
  /\ upgrade.phase = "sent"
  /\ LET checked == IF t.kind = "rejection" THEN Rejected(t.ex) ELSE UpgradeOkCheck(t)
         goesOn == checked.state = "fulfilled"
     IN /\ upgrade' = [upgrade EXCEPT !.res = t,
                                      !.phase = IF goesOn THEN "parsing" ELSE "settled",
                                      !.read = IF goesOn THEN 1 ELSE 0]
        /\ upgradeResult' = IF goesOn THEN Pending ELSE checked
  /\ UNCHANGED <<auth, reconcileVars, clientVars, requests, now, atomVars, emblinkVars, reducerVars>>

\* res.json() settles; line 70 runs on the parsed body
UpgradeJson ==
  /\ upgrade.phase = "parsing"
  /\ LET parsed == ResJson(upgrade.res)
     IN upgradeResult' = IF parsed.state = "fulfilled"
                         THEN Fulfilled(UpgradeAugment(parsed.value, now))
                         ELSE parsed
  /\ upgrade' = [upgrade EXCEPT !.phase = "settled", !.at = now]
  /\ UNCHANGED <<auth, reconcileVars, clientVars, requests, now, atomVars, emblinkVars, reducerVars>>

\* lines 142-146, called with what the token exchange resolved with
fetchAccountProfileWithRawAuth ==
  /\ upgradeResult.state = "fulfilled"
  /\ call.op = "none"
  /\ LET rawAuth == upgradeResult.value
         expiry == JSNumber(now + rawAuth.expires_in.value)
         a == generateAuth(rawAuth.access_token, rawAuth.refresh_token, expiry)
     IN Begin("fetchAccountProfile", "oauth2.userinfo.get", a, fetchAccountProfileGuard(a))

InitUpgrade == InitClient

NextUpgrade ==
  \/ Tick
  \/ upgradeAuthCodeToPermenant
  \/ \E t \in UpgradeTransports : UpgradeRespond(t)
  \/ UpgradeJson
  \/ fetchAccountProfileWithRawAuth
  \/ \E t \in Transports : Answer(t)

SpecUpgrade == InitUpgrade /\ [][NextUpgrade]_vars

(***************************************************************************)
(* Gmail: Atom                                                             *)
(***************************************************************************)
MaxEntries == 2

\* what parseInt and an invalid Date's getTime() give when there is no number
NaN == [type |-> "nan"]

IsNaN(v) == v.type = "nan"

Digits == {"0", "1", "2", "3", "4", "5", "6", "7", "8", "9"}

DigitValue(c) == CHOOSE n \in 0..9 : ToDecimal(n) = <<c>>

WhiteSpace == {" ", "\t", "\n", "\r"}

RECURSIVE SkipWhiteSpace(_)
SkipWhiteSpace(chars) ==
  IF chars # <<>> /\ Head(chars) \in WhiteSpace THEN SkipWhiteSpace(Tail(chars)) ELSE chars

RECURSIVE DigitPrefix(_)
\* the longest run of decimal digits the text starts with
DigitPrefix(chars) ==
  IF chars # <<>> /\ Head(chars) \in Digits
  THEN <<Head(chars)>> \o DigitPrefix(Tail(chars)) ELSE <<>>

RECURSIVE DigitsValue(_)
DigitsValue(digits) ==
  IF digits = <<>> THEN 0
  ELSE 10 * DigitsValue(SubSeq(digits, 1, Len(digits) - 1)) + DigitValue(digits[Len(digits)])

\* parseInt(text) without a radix, for texts that do not start with 0x:
\* leading white space is skipped, a sign is read, then the digits up to the
\* first character that is not one; NaN when there is no digit
ParseInt(chars) ==
  LET s == SkipWhiteSpace(chars)
      signed == s # <<>> /\ Head(s) \in {"+", "-"}
      digits == DigitPrefix(IF signed THEN Tail(s) ELSE s)
  IN IF digits = <<>> THEN NaN
     ELSE IF signed /\ Head(s) = "-" THEN JSNumber(0 - DigitsValue(digits))
     ELSE JSNumber(DigitsValue(digits))

\* the date texts of the feeds: ISO 8601 instants within the first second
\* of the epoch, so that their milliseconds stay small numbers
EpochPrefix == <<"1", "9", "7", "0", "-", "0", "1", "-", "0", "1", "T", "0", "0", ":", "0", "0", ":", "0", "0", ".">>

\* new Date(text).getTime() for the texts the feeds hold: the milliseconds
\* of an instant written as 1970-01-01T00:00:00.mmmZ, NaN for any other text
DateParse(chars) ==
  LET n == Len(EpochPrefix)
  IN IF /\ Len(chars) = n + 4
        /\ SubSeq(chars, 1, n) = EpochPrefix
        /\ \A i \in (n + 1)..(n + 3) : chars[i] \in Digits
        /\ chars[n + 4] = "Z"
     THEN JSNumber(DigitsValue(SubSeq(chars, n + 1, n + 3)))
     ELSE NaN

\* a Date object
NewDate(time) == [type |-> "date", time |-> time]

\* `${number}`
NumberToString(v) == IF IsNaN(v) THEN JSString(<<"N", "a", "N">>) ELSE JSString(ToDecimal(v.value))

\* an element with text, and the null querySelector gives for no match
Element(chars) == [type |-> "element", textContent |-> chars]

\* a link element: the href either parses as a URL with the given query
\* parameters or makes new window.URL throw
Link(valid, params) == [type |-> "element", valid |-> valid, params |-> params]

\* URLSearchParams.get: null for a parameter the URL does not have
SearchParamsGet(url, name) ==
  IF name \in DOMAIN url.params THEN url.params[name] ELSE JSNull

\* lines 337-345
atomXMLGetInt(el, selector, defaultValue) ==
  LET target == el[selector]
  IN IF Falsy(target) THEN defaultValue
     ELSE LET val == ParseInt(target.textContent)
          IN IF IsNaN(val) THEN defaultValue ELSE val

\* atomXMLGetDate returning the Date it built, valid or not
atomXMLGetDateUnchecked(el, selector, defaultValue) ==
  IF Falsy(el[selector]) THEN defaultValue
  ELSE NewDate(DateParse(el[selector].textContent))

\* lines 354-362
atomXMLGetDate(el, selector, defaultValue) ==
  LET target == el[selector]
  IN IF Falsy(target) THEN defaultValue
     ELSE LET val == NewDate(DateParse(target.textContent))
          IN IF IsNaN(val.time) THEN defaultValue ELSE val

\* lines 371-376
atomXMLGetString(el, selector, defaultValue) ==
  LET target == el[selector]
  IN IF Falsy(target) THEN defaultValue ELSE JSString(target.textContent)

\* lines 385-397: the catch gives the default for an href that makes
\* new window.URL throw
atomXMLGetUrl(el, selector, defaultValue) ==
  LET target == el[selector]
  IN IF Falsy(target) THEN defaultValue
     ELSE IF ~target.valid THEN defaultValue
     ELSE [type |-> "url", params |-> target.params]

RECURSIVE Join(_, _)
\* Array.prototype.join over strings
Join(parts, sep) ==
  IF parts = <<>> THEN <<>>
  ELSE IF Len(parts) = 1 THEN parts[1].chars
  ELSE parts[1].chars \o sep \o Join(Tail(parts), sep)

\* lines 405-409
AuthorString(entry) ==
  LET authorEmail == atomXMLGetString(entry, "author>email", JSUndefined)
      parts == <<atomXMLGetString(entry, "author>name", JSUndefined),
                 IF Falsy(authorEmail) THEN JSUndefined
                 ELSE JSString(<<"<">> \o authorEmail.chars \o <<">">>)>>
      Truthy(c) == ~Falsy(c)
  IN JSString(Join(SelectSeq(parts, Truthy), <<" ">>))

\* lines 404-428; time is what new Date() gives while the entry is converted
atomXMLGmailMessageEntryToThread(entry, time) ==
  LET modifiedTimestamp == atomXMLGetDate(entry, "modified", NewDate(JSNumber(time))).time
      altUrl == atomXMLGetUrl(entry, "link", JSUndefined)
  IN [historyId |-> NumberToString(modifiedTimestamp),
      id |-> atomXMLGetString(entry, "id", JSUndefined),
      latestMessage |->
        [from |-> AuthorString(entry),
         historyId |-> NumberToString(modifiedTimestamp),
         id |-> IF Falsy(altUrl) THEN JSUndefined ELSE SearchParamsGet(altUrl, "message_id"),
         internalDate |-> modifiedTimestamp,
         snippet |-> atomXMLGetString(entry, "summary", JSString(<<>>)),
         subject |-> atomXMLGetString(entry, "title", JSString(<<>>)),
         to |-> IF Falsy(altUrl) THEN JSUndefined ELSE SearchParamsGet(altUrl, "account_id")]]

\* EntriesToThreads converting only the entries that have an id
EntriesToThreadsWithId(entries, time) ==
  LET HasId(entry) == ~Falsy(entry["id"])
      kept == SelectSeq(entries, HasId)
  IN [i \in DOMAIN kept |-> atomXMLGmailMessageEntryToThread(kept[i], time)]

\* line 479: Array.from(xml.querySelectorAll('entry')).map(...)
EntriesToThreads(entries, time) ==
  [i \in DOMAIN entries |-> atomXMLGmailMessageEntryToThread(entries[i], time)]

Absent == JSNull

Entry(name, email, id, title, summary, modified, link) ==
  [type |-> "element", entries |-> <<>>, fullcount |-> Absent,
   id |-> id, title |-> title, summary |-> summary, modified |-> modified, link |-> link]
    @@ ("author>name" :> name) @@ ("author>email" :> email)

ValidDateTexts == {EpochPrefix \o <<"0", "0", "5", "Z">>, EpochPrefix \o <<"0", "0", "7", "Z">>}

BadDateText == <<"y", "e", "s", "t", "e", "r", "d", "a", "y">>

BothParams == [message_id |-> JSString(<<"m", "1">>), account_id |-> JSString(<<"u", "@", "x">>)]

\* the entries the feeds are made of: complete, empty, and with fields
\* missing, empty or malformed in several combinations
Entries ==
  { Entry(Element(<<"A", "l">>), Element(<<"a", "@", "x">>), Element(<<"t", "1">>),
          Element(<<"H", "i">>), Element(<<"Y", "o">>),
          Element(EpochPrefix \o <<"0", "0", "5", "Z">>), Link(TRUE, BothParams)),
    Entry(Absent, Absent, Absent, Absent, Absent, Absent, Absent),
    Entry(Element(<<"A", "l">>), Absent, Element(<<"t", "2">>),
          Absent, Element(<<"Y", "o">>), Element(BadDateText), Link(FALSE, EmptyObject)),
    Entry(Absent, Element(<<"a", "@", "x">>), Absent,
          Element(<<"H", "i">>), Absent,
          Element(EpochPrefix \o <<"0", "0", "7", "Z">>), Link(TRUE, EmptyObject)),
    Entry(Element(<<"A", "l">>), Element(<<>>), Element(<<"t", "3">>),
          Element(<<>>), Element(<<>>), Absent, Link(TRUE, BothParams)) }

FullcountTexts == {<<"7">>, <<"a", "b", "c">>, <<"1", "2", "a", "b", "c">>, <<>>, <<" ", "4", "2">>}

\* an XML document of the feed: its fullcount and modified elements and its entries
Feed(fullcount, modified, entries) ==
  [type |-> "document", fullcount |-> fullcount, feedModified |-> modified, entries |-> entries]

Feeds ==
  { Feed(fc, md, es) :
      fc \in {Absent} \cup {Element(x) : x \in FullcountTexts},
      md \in {Absent, Element(BadDateText)} \cup {Element(x) : x \in ValidDateTexts},
      es \in SeqsUpTo(Entries, MaxEntries) }

\* xml.querySelector('modified'): the first modified element of the
\* document, the feed's own or else the first one an entry has
FirstModified(doc) ==
  IF ~Falsy(doc.feedModified) THEN doc.feedModified
  ELSE IF \E i \in DOMAIN doc.entries : ~Falsy(doc.entries[i].modified)
  THEN doc.entries[CHOOSE i \in DOMAIN doc.entries :
                      /\ ~Falsy(doc.entries[i].modified)
                      /\ \A j \in 1..(i - 1) : Falsy(doc.entries[j].modified)].modified
  ELSE Absent

\* the document as querySelector sees it
Document(doc) ==
  [type |-> "document", fullcount |-> doc.fullcount, modified |-> FirstModified(doc),
   entries |-> doc.entries]

XmlText(doc) == [kind |-> "xml", doc |-> doc]

\* DOMParser.parseFromString: text that is not XML gives a document that
\* holds a parsererror and none of the feed's elements
ParseFromString(body) ==
  IF body.kind = "xml" THEN Document(body.doc) ELSE Document(Feed(Absent, Absent, <<>>))

AtomTransports ==
  {FetchResponse(StatusOK, XmlText(f)) : f \in Feeds}
    \cup {FetchResponse(StatusOK, NotJsonText),
          FetchResponse(401, NotJsonText),
          FetchResponse(500, XmlText(Feed(Element(<<"7">>), Absent, <<>>))),
          Rejection(NetworkError)}

CountNotValidMessage == <<"C", "o", "u", "n", "t", " ", "i", "s", " ", "n", "o", "t", " ", "a", " ", "v", "a", "l", "i", "d">>

\* lines 450-455
UnreadCountThen(xml) ==
  LET count == atomXMLGetInt(xml, "fullcount", JSUndefined)
  IN IF count = JSUndefined THEN Rejected(NewError(CountNotValidMessage))
     ELSE Fulfilled(count)

\* lines 477-483
UnreadInfoThen(xml, time) ==
  Fulfilled([threads |-> EntriesToThreads(xml.entries, time),
             count |-> atomXMLGetInt(xml, "fullcount", JSNumber(0)),
             timestamp |-> atomXMLGetDate(xml, "modified", NewDate(JSNumber(time))).time])

\* lines 443-455 and 471-483: the chain that runs on what the request gave
AtomSettle(op, t, time) ==
  IF t.kind = "rejection" THEN Rejected(t.ex)
  ELSE IF ~t.ok THEN Rejected(t)
  ELSE IF op = "fetchGmailAtomUnreadCount" THEN UnreadCountThen(ParseFromString(t.body))
  ELSE UnreadInfoThen(ParseFromString(t.body), time)

\* lines 436-442
fetchGmailAtomUnreadCount ==
  /\ atom.op = "none"
  /\ atom' = [op |-> "fetchGmailAtomUnreadCount", res |-> NoAnswer, at |-> 0]
  /\ atomResult' = Pending
  /\ UNCHANGED <<auth, reconcileVars, clientVars, requests, now, upgradeVars,
                 emblinkVars, reducerVars>>

\* lines 464-470
fetchGmailAtomUnreadInfo ==
  /\ atom.op = "none"
  /\ atom' = [op |-> "fetchGmailAtomUnreadInfo", res |-> NoAnswer, at |-> 0]
  /\ atomResult' = Pending
  /\ UNCHANGED <<auth, reconcileVars, clientVars, requests, now, upgradeVars,
                 emblinkVars, reducerVars>>

\* the request settles and the rest of the chain runs
AtomRespond(t) ==
  /\ atom.op # "none"
  /\ atomResult.state = "pending"
  /\ atom' = [atom EXCEPT !.res = t, !.at = now]
  /\ atomResult' = AtomSettle(atom.op, t, now)
  /\ UNCHANGED <<auth, reconcileVars, clientVars, requests, now, upgradeVars,
                 emblinkVars, reducerVars>>

InitAtom == InitClient

NextAtom ==
  \/ Tick
  \/ fetchGmailAtomUnreadCount
  \/ fetchGmailAtomUnreadInfo
  \/ \E t \in AtomTransports : AtomRespond(t)

SpecAtom == InitAtom /\ [][NextAtom]_vars

(***************************************************************************)
(* CoreEmblinkStore                                                        *)
(***************************************************************************)
\* a || b
Or(a, b) == IF Falsy(a) THEN b ELSE a

MailtoPrefix == <<"m", "a", "i", "l", "t", "o", ":">>

\* the position of the first sep in chars, 0 when there is none
IndexOf(chars, sep) ==
  IF \E i \in DOMAIN chars : chars[i] = sep
  THEN CHOOSE i \in DOMAIN chars :
         chars[i] = sep /\ \A j \in 1..(i - 1) : chars[j] # sep
  ELSE 0

RECURSIVE SplitOn(_, _)
\* String.prototype.split on a one-character separator
SplitOn(chars, sep) ==
  LET i == IndexOf(chars, sep)
  IN IF i = 0 THEN <<chars>>
     ELSE <<SubSeq(chars, 1, i - 1)>> \o SplitOn(SubSeq(chars, i + 1, Len(chars)), sep)

HexDigits == Digits \cup {"a", "b", "c", "d", "e", "f", "A", "B", "C", "D", "E", "F"}

\* decodeURIComponent throws a URIError for a % that two hex digits do not follow
DecodeThrows(chars) ==
  \E i \in DOMAIN chars :
    /\ chars[i] = "%"
    /\ ~(i + 2 <= Len(chars) /\ chars[i + 1] \in HexDigits /\ chars[i + 2] \in HexDigits)

RECURSIVE DecodeURIComponent(_)
\* decodeURIComponent of a text that does not make it throw, for the one
\* escape the links hold, %40
DecodeURIComponent(chars) ==
  IF chars = <<>> THEN <<>>
  ELSE IF Head(chars) = "%" /\ SubSeq(chars, 2, 3) = <<"4", "0">>
  THEN <<"@">> \o DecodeURIComponent(SubSeq(chars, 4, Len(chars)))
  ELSE <<Head(chars)>> \o DecodeURIComponent(Tail(chars))

\* addressparser(text).map((r) => r.address) for a text that is empty or
\* one bare address
Addresses(chars) == IF chars = <<>> THEN <<>> ELSE <<JSString(chars)>>

RECURSIVE QueryPairs(_)
QueryPairs(pairs) ==
  IF pairs = <<>> THEN EmptyObject
  ELSE LET pair == Head(pairs)
           i == IndexOf(pair, "=")
           key == IF i = 0 THEN pair ELSE SubSeq(pair, 1, i - 1)
           value == IF i = 0 THEN <<>> ELSE SubSeq(pair, i + 1, Len(pair))
           rest == QueryPairs(Tail(pairs))
       IN [k \in DOMAIN rest \cup {key} |->
             IF k = key THEN JSString(value) ELSE rest[k]]

\* querystring.parse for a query without escapes or repeated keys
QuerystringParse(queryStr) ==
  IF Falsy(queryStr) THEN EmptyObject ELSE QueryPairs(SplitOn(queryStr.chars, "&"))

\* lines 102-115, for a string that starts with mailto:
ParseMailtoString(chars) ==
  LET parts == SplitOn(SubSeq(chars, Len(MailtoPrefix) + 1, Len(chars)), "?")
      recipientStr == parts[1]
      queryStr == IF Len(parts) >= 2 THEN JSString(parts[2]) ELSE JSUndefined
      query == QuerystringParse(queryStr)
  IN IF DecodeThrows(recipientStr) THEN JSNull
     ELSE [valid |-> TRUE,
           recipient |-> JSString(Join(Addresses(DecodeURIComponent(recipientStr)), <<",">>)),
           subject |-> Or(Lookup(query, <<"s", "u", "b", "j", "e", "c", "t">>), Lookup(query, <<"S", "u", "b", "j", "e", "c", "t">>)),
           body |-> Or(Lookup(query, <<"b", "o", "d", "y">>), Lookup(query, <<"B", "o", "d", "y">>))]

\* parseMailtoLink parsing every string
parseMailtoLinkAnyString(mailtoLink) ==
  IF mailtoLink.type # "string" THEN JSNull ELSE ParseMailtoString(mailtoLink.chars)

\* lines 98-116
parseMailtoLink(mailtoLink) ==
  IF mailtoLink.type # "string" THEN JSNull
  ELSE IF ~StartsWith(mailtoLink.chars, MailtoPrefix) THEN JSNull
  ELSE ParseMailtoString(mailtoLink.chars)

\* lines 146-150
MailtoPayload(mailtoLink, parsedLink) ==
  IF parsedLink = JSNull THEN JSNull
  ELSE [original |-> mailtoLink, originalType |-> "mailto", valid |-> parsedLink.valid,
        recipient |-> parsedLink.recipient, subject |-> parsedLink.subject,
        body |-> parsedLink.body]

MailboxIds == {JSUndefined, JSNull, JSString(<<>>), JSString(<<"m", "1">>)}

ServiceTypes == {JSUndefined, JSNull, JSString(<<"D", "E", "F", "A", "U", "L", "T">>)}

MailtoLinks ==
  { JSUndefined, JSNull, JSNumber(5),
    JSString(<<"h", "t", "t", "p", ":", "/", "/", "x">>),
    JSString(<<"M", "a", "i", "l", "t", "o", ":", "a", "@", "x">>),
    JSString(<<"m", "a", "i", "l", "t", "o", ":", "a", "@", "x">>),
    JSString(<<"m", "a", "i", "l", "t", "o", ":", "a", "%", "4", "0", "x">>),
    JSString(<<"m", "a", "i", "l", "t", "o", ":", "a", "@", "x", "?", "s", "u", "b", "j", "e", "c", "t", "=", "H", "i", "&", "b", "o", "d", "y", "=", "Y", "o">>),
    JSString(<<"m", "a", "i", "l", "t", "o", ":", "?", "S", "u", "b", "j", "e", "c", "t", "=", "H", "i">>),
    JSString(<<"m", "a", "i", "l", "t", "o", ":", "%">>) }

OpenPayloads == {JSUndefined, [type |-> "object", tag |-> "item"]}

\* what a LOAD carries for compose and for open: nothing, or the record of
\* another store
LoadedComposes ==
  { JSUndefined, InitialCompose,
    [active |-> FALSE, mailboxId |-> JSString(<<"m", "1">>), serviceType |-> JSNull,
     payload |-> [type |-> "object", tag |-> "item"]] }

LoadedOpens ==
  { JSUndefined, InitialOpen,
    [mailboxId |-> JSString(<<"m", "1">>), serviceType |-> JSNull, payload |-> JSNull] }

\* the store has handled an action: change is emitted unless the handler
\* called preventDefault
Dispatched(action, data, prevented) ==
  dispatch' = [action |-> action, data |-> data, emitted |-> ~prevented]

\* lines 80-87
handleLoad ==
  \E c \in LoadedComposes, o \in LoadedOpens :
    /\ compose' = IF c = JSUndefined THEN compose ELSE c
    /\ open' = IF o = JSUndefined THEN open ELSE o
    /\ loaded' = (loaded \/ c # JSUndefined \/ o # JSUndefined)
    /\ Dispatched("LOAD", [compose |-> c, open |-> o], FALSE)
    /\ UNCHANGED <<auth, reconcileVars, clientVars, requests, now, upgradeVars,
                   atomVars, reducerVars>>

\* lines 122-129
handleComposeNewMessage ==
  \E mailboxId \in MailboxIds, serviceType \in ServiceTypes :
    /\ compose' = [active |-> TRUE,
                   mailboxId |-> Or(mailboxId, JSNull),
                   serviceType |-> Or(serviceType, JSNull),
                   payload |-> JSNull]
    /\ Dispatched("COMPOSE_NEW_MESSAGE",
                  [mailboxId |-> mailboxId, serviceType |-> serviceType], FALSE)
    /\ UNCHANGED <<open, loaded, auth, reconcileVars, clientVars, requests, now,
                   upgradeVars, atomVars, reducerVars>>

\* lines 131-138
handleClearCompose ==
  /\ compose' = [active |-> FALSE, mailboxId |-> JSNull, serviceType |-> JSNull,
                 payload |-> JSNull]
  /\ Dispatched("CLEAR_COMPOSE", EmptyObject, FALSE)
  /\ UNCHANGED <<open, loaded, auth, reconcileVars, clientVars, requests, now,
                 upgradeVars, atomVars, reducerVars>>

\* lines 140-152
handleComposeNewMailtoLink ==
  \E mailtoLink \in MailtoLinks, mailboxId \in MailboxIds, serviceType \in ServiceTypes :
    /\ compose' = [active |-> TRUE,
                   mailboxId |-> Or(mailboxId, JSNull),
                   serviceType |-> Or(serviceType, JSNull),
                   payload |-> MailtoPayload(mailtoLink, parseMailtoLink(mailtoLink))]
    /\ Dispatched("COMPOSE_NEW_MAILTO_LINK",
                  [mailtoLink |-> mailtoLink, mailboxId |-> mailboxId,
                   serviceType |-> serviceType], FALSE)
    /\ UNCHANGED <<open, loaded, auth, reconcileVars, clientVars, requests, now,
                   upgradeVars, atomVars, reducerVars>>

\* OpenItemRefused looking at the mailboxId alone
OpenItemRefusedMailboxOnly(mailboxId, serviceType) == Falsy(mailboxId)

\* line 159
OpenItemRefused(mailboxId, serviceType) == Falsy(mailboxId) \/ Falsy(serviceType)

\* lines 158-169
handleOpenItem ==
  \E mailboxId \in MailboxIds, serviceType \in ServiceTypes, openPayload \in OpenPayloads :
    /\ open' = IF OpenItemRefused(mailboxId, serviceType) THEN open
               ELSE [mailboxId |-> mailboxId, serviceType |-> serviceType,
                     payload |-> openPayload]
    /\ Dispatched("OPEN_ITEM",
                  [mailboxId |-> mailboxId, serviceType |-> serviceType,
                   openPayload |-> openPayload],
                  OpenItemRefused(mailboxId, serviceType))
    /\ UNCHANGED <<compose, loaded, auth, reconcileVars, clientVars, requests, now,
                   upgradeVars, atomVars, reducerVars>>

\* lines 171-177
handleClearOpenItem ==
  /\ open' = [mailboxId |-> JSNull, serviceType |-> JSNull, payload |-> JSNull]
  /\ Dispatched("CLEAR_OPEN_ITEM", EmptyObject, FALSE)
  /\ UNCHANGED <<compose, loaded, auth, reconcileVars, clientVars, requests, now,
                 upgradeVars, atomVars, reducerVars>>

InitEmblink == InitClient

NextEmblink ==
  \/ handleLoad
  \/ handleComposeNewMessage
  \/ handleClearCompose
  \/ handleComposeNewMailtoLink
  \/ handleOpenItem
  \/ handleClearOpenItem

SpecEmblink == InitEmblink /\ [][NextEmblink]_vars

(***************************************************************************)
(* GoogleMailboxReducer                                                    *)
(***************************************************************************)
MaxOps == 6

\* mailbox.changeDataWithChangeset({ auth: { isInvalid } }): the mailbox
\* with the flag of the changeset
changeDataWithChangeset(m, isInvalid) == [m EXCEPT !.isAuthenticationInvalid = isInvalid]

\* InvalidateAuthReturn changing the mailbox whatever its flag
InvalidateAuthReturnAlways(m) == changeDataWithChangeset(m, TRUE)

\* lines 25-31: what invalidateAuth returns
InvalidateAuthReturn(m) ==
  IF ~m.isAuthenticationInvalid THEN changeDataWithChangeset(m, TRUE) ELSE JSUndefined

\* lines 37-43: what revalidateAuth returns
RevalidateAuthReturn(m) ==
  IF m.isAuthenticationInvalid THEN changeDataWithChangeset(m, FALSE) ELSE JSUndefined

\* the caller of a reducer keeps the mailbox when nothing is returned
Reduced(m, returned) == IF returned = JSUndefined THEN m ELSE returned

invalidateAuth ==
  /\ Len(applied) < MaxOps
  /\ change' = InvalidateAuthReturn(mailbox)
  /\ mailbox' = Reduced(mailbox, InvalidateAuthReturn(mailbox))
  /\ applied' = Append(applied, "invalidateAuth")
  /\ UNCHANGED <<auth, reconcileVars, clientVars, requests, now, upgradeVars,
                 atomVars, emblinkVars>>

revalidateAuth ==
  /\ Len(applied) < MaxOps
  /\ change' = RevalidateAuthReturn(mailbox)
  /\ mailbox' = Reduced(mailbox, RevalidateAuthReturn(mailbox))
  /\ applied' = Append(applied, "revalidateAuth")
  /\ UNCHANGED <<auth, reconcileVars, clientVars, requests, now, upgradeVars,
                 atomVars, emblinkVars>>

InitReducer ==
  /\ auth = JSUndefined
  /\ knownThreads = EmptyObject
  /\ threadHeaders = <<>>
  /\ postProcessThread = JSUndefined
  /\ pc = "idle"
  /\ changedThreadIds = <<>>
  /\ fetches = <<>>
  /\ outcome = Pending
  /\ settleOrder = <<>>
  /\ again = NoAgain
  /\ call = NoCall
  /\ result = Pending
  /\ requests = <<>>
  /\ now = 0
  /\ upgrade = NoUpgrade
  /\ upgradeResult = Pending
  /\ atom = NoAtom
  /\ atomResult = Pending
  /\ compose = InitialCompose
  /\ open = InitialOpen
  /\ dispatch = NoDispatch
  /\ loaded = FALSE
  /\ mailbox \in {Mailbox(FALSE), Mailbox(TRUE)}
  /\ change = JSUndefined
  /\ applied = <<>>

NextReducer ==
  \/ invalidateAuth
  \/ revalidateAuth

SpecReducer == InitReducer /\ [][NextReducer]_vars

(***************************************************************************)
(* Claims about fullyResolveGmailThreadHeaders, under SpecReconcile        *)
(***************************************************************************)
\* the positions of the headers the cache does not answer
ChangedPositions ==
  {i \in DOMAIN threadHeaders :
     \/ threadHeaders[i].id \notin DOMAIN knownThreads
     \/ knownThreads[threadHeaders[i].id].historyId # threadHeaders[i].historyId}

\* the k-th of those positions, in header order
NthChanged(k) ==
  CHOOSE i \in ChangedPositions :
    Cardinality({j \in ChangedPositions : j < i}) = k - 1

AnsweredPositions == DOMAIN threadHeaders \ ChangedPositions

Started == pc # "idle"

\* C1: once the pass has started, the headers marked changed are exactly
\* those whose id the cache lacks or holds under another historyId: the
\* k-th marked id is the id of the k-th such header, and a header the cache
\* holds with the same historyId is not marked.
C1_DiffCorrect ==
  Started =>
    /\ Len(changedThreadIds) = Cardinality(ChangedPositions)
    /\ \A k \in DOMAIN changedThreadIds :
         changedThreadIds[k] = threadHeaders[NthChanged(k)].id

\* C1's case: a pass over a header the cache answers and a header whose
\* cached historyId differs
C1_Witness ==
  /\ Started
  /\ AnsweredPositions # {}
  /\ \E i \in ChangedPositions : threadHeaders[i].id \in DOMAIN knownThreads

NoDuplicates(s) == \A i, j \in DOMAIN s : s[i] = s[j] => i = j

\* C2: the fetches of one pass are one per changed id: the changed ids hold
\* no id twice, keep the order of the headers, and every request is for a
\* changed id.
C2_OneFetchPerChangedId ==
  (Started /\ ~Falsy(auth)) =>
    /\ NoDuplicates(changedThreadIds)
    /\ \A k \in DOMAIN changedThreadIds :
         changedThreadIds[k] = threadHeaders[NthChanged(k)].id
    /\ Len(requests) = Len(changedThreadIds)
    /\ \A r \in DOMAIN requests :
         /\ requests[r].id = changedThreadIds[r]
         /\ \E i \in ChangedPositions : threadHeaders[i].id = requests[r].id

IdsOf(threads) == [i \in DOMAIN threads |-> threads[i].id]

HeaderResolved(h) ==
  h.id \in DOMAIN knownThreads \/ h.id \in Range(changedThreadIds)

\* C3: the ids of the output are the ids of the headers, in the order of the
\* headers, less the ids neither fetched nor known.
C3_OrderPreserved ==
  outcome.state = "fulfilled" =>
    IdsOf(outcome.value) = IdsOf(SelectSeq(threadHeaders, HeaderResolved))

\* C3's case: a resolved pass over two different ids of which the second is
\* fetched and the first is served from the cache, listed in descending order
C3_Witness ==
  /\ outcome.state = "fulfilled"
  /\ Len(threadHeaders) = 2
  /\ threadHeaders[1].id = "B"
  /\ threadHeaders[2].id = "A"
  /\ ChangedPositions = {2}

FetchFailed(i) == ~Falsy(auth) /\ fetches[i].state = "rejected"

\* C4: a fetch that fails does not fail the pass.
C4_FailedFetchNotPropagated ==
  (\E i \in DOMAIN fetches : FetchFailed(i)) => outcome.state # "rejected"

\* the ids the delivered value reports as failed: the value is the array of
\* threads alone
failedIds == {}

AllSettled == Started /\ \A i \in DOMAIN fetches : fetches[i].state # "pending"

\* C5: when the fetch of X fails the output holds X's prior summary at the
\* position of X's header if the cache has one, and otherwise leaves X out
\* and reports it in failedIds.
C5_PartialFailureTolerance ==
  AllSettled =>
    \A i \in DOMAIN fetches : FetchFailed(i) =>
      LET X == changedThreadIds[i]
      IN /\ outcome.state = "fulfilled"
         /\ IF X \in DOMAIN knownThreads
            THEN \E p \in DOMAIN outcome.value :
                   /\ outcome.value[p] = knownThreads[X]
                   /\ threadHeaders[p].id = X
            ELSE /\ X \notin Range(IdsOf(outcome.value))
                 /\ X \in failedIds

\* C10: all fetches are issued before any is awaited, and the outcome is
\* delivered only once every fetch of the pass has settled (stated for the
\* passes that fetch each id once).
C10_OutcomeAfterAllSettled ==
  /\ (Started /\ ~Falsy(auth)) => Len(requests) = Len(changedThreadIds)
  /\ (outcome.state # "pending" /\ NoDuplicates(changedThreadIds)) =>
       \A i \in DOMAIN fetches : fetches[i].state # "pending"

(***************************************************************************)
(* Claims about the request wrappers, under SpecClient                     *)
(***************************************************************************)
Called == call.op # "none"

Answered == call.answer.kind # "none"

\* C6: an operation called with a null or undefined auth hands no request
\* to the library and returns the missing-authentication rejection.
C6_CredentialGating ==
  (Called /\ auth.type \in {"null", "undefined"}) =>
    /\ requests = <<>>
    /\ result.state = "rejected"
    /\ result.value.type = "error"
    /\ result.value.message = JSString(NoAuthMessage)

\* C6's case: the label fetch called with a null auth
C6_Witness ==
  /\ call.op = "fetchGmailLabel"
  /\ auth = JSNull
  /\ result.state = "rejected"

\* a credential built without an access token or without a refresh token
InvalidCredential(a) ==
  /\ a.type = "OAuth2"
  /\ \/ a.credentials.access_token.type \in {"null", "undefined"}
     \/ a.credentials.refresh_token.type \in {"null", "undefined"}

\* C7: an operation given a credential that lacks a token fails with the
\* missing-authentication error and hands no request to the library.
C7_InvalidCredentialNeverUsed ==
  (Called /\ InvalidCredential(auth)) =>
    /\ requests = <<>>
    /\ result.state = "rejected"
    /\ result.value.type = "error"
    /\ result.value.message = JSString(NoAuthMessage)

\* the message of ex is a string that goes on from the phrase
BeginsWithPhrase(ex) ==
  /\ ex.type = "error"
  /\ ex.message.type = "string"
  /\ Len(ex.message.chars) >= Len(PushClientPhrase)
  /\ \A i \in DOMAIN PushClientPhrase : ex.message.chars[i] = PushClientPhrase[i]

WatchRejected == call.op = "watchAccount" /\ call.answer.kind = "rejection"

\* C8: a rejection of the watch call whose message begins with the phrase
\* gives a fulfilled promise with empty data; any other rejection is the
\* rejection of the promise watchAccount returned.
C8_WatchTolerance ==
  WatchRejected =>
    IF BeginsWithPhrase(call.answer.ex)
    THEN result.state = "fulfilled" /\ result.value = EmptyObject
    ELSE result.state = "rejected" /\ result.value = call.answer.ex

\* C8's case: the watch call rejected with the phrase and more text
C8_Witness ==
  /\ WatchRejected
  /\ call.answer.ex = PushClientError
  /\ result.state = "fulfilled"

\* the HTTP status of an answer, -1 when the server gave none
HttpStatus(t) ==
  IF t.kind = "response" THEN t.status
  ELSE IF t.ex.type = "error" /\ t.ex.code.type = "number" THEN t.ex.code.value
  ELSE -1

RECURSIVE DecimalValue(_)
\* the number a string of decimal digits writes, -1 when it is none
DecimalValue(chars) ==
  LET digits == [c \in {"0", "1", "2", "3", "4", "5", "6", "7", "8", "9"} |->
                   CASE c = "0" -> 0 [] c = "1" -> 1 [] c = "2" -> 2 [] c = "3" -> 3
                     [] c = "4" -> 4 [] c = "5" -> 5 [] c = "6" -> 6 [] c = "7" -> 7
                     [] c = "8" -> 8 [] c = "9" -> 9]
      last == chars[Len(chars)]
  IN IF chars = <<>> \/ last \notin DOMAIN digits THEN -1
     ELSE IF Len(chars) = 1 THEN digits[last]
     ELSE LET front == DecimalValue(SubSeq(chars, 1, Len(chars) - 1))
          IN IF front < 0 THEN -1 ELSE 10 * front + digits[last]

\* the error names the status: as its code, or in the text of its message
CarriesStatus(err, status) ==
  /\ err.type = "error"
  /\ \/ err.code = JSNumber(status)
     \/ /\ err.message.type = "string"
        /\ Len(err.message.chars) > Len(InvalidStatusPrefix)
        /\ SubSeq(err.message.chars, 1, Len(InvalidStatusPrefix)) = InvalidStatusPrefix
        /\ DecimalValue(SubSeq(err.message.chars, Len(InvalidStatusPrefix) + 1,
                               Len(err.message.chars))) = status

\* the contract of one answered call: the payload exactly for status 200,
\* and for another status an error that carries it
StatusContract ==
  LET status == HttpStatus(call.answer)
  IN /\ result.state = "fulfilled" <=> status = StatusOK
     /\ result.state = "fulfilled" => result.value = call.answer.data
     /\ (status >= 0 /\ status # StatusOK) =>
          /\ result.state = "rejected"
          /\ CarriesStatus(result.value, status)

\* C9 as stated, for the credentials that hold both tokens: every answered
\* call keeps the status contract.
C9_StatusContractEveryCall ==
  (Answered /\ ~InvalidCredential(auth)) => StatusContract

WatchTolerated == WatchRejected /\ BeginsWithPhrase(call.answer.ex)

\* C9 as amended: every answered call keeps the status contract, but for
\* the watch call rejected with the phrase, which is fulfilled with empty
\* data.
C9_StatusContract ==
  Answered =>
    IF WatchTolerated
    THEN result.state = "fulfilled" /\ result.value = EmptyObject
    ELSE StatusContract

\* C9's case: the thread fetch answered with a status that is not 200
C9_Witness ==
  /\ call.op = "fetchGmailThread"
  /\ call.answer.kind = "response"
  /\ call.answer.status = 204
  /\ result.state = "rejected"

(***************************************************************************)
(* Claims about the merge, under SpecReconcile                             *)
(***************************************************************************)
Resolved == outcome.state = "fulfilled"

WasFetched(id) == id \in Range(changedThreadIds)

\* the last fetch the pass made for the id
LastFetchOf(id) ==
  CHOOSE i \in DOMAIN changedThreadIds :
    /\ changedThreadIds[i] = id
    /\ \A j \in DOMAIN changedThreadIds : changedThreadIds[j] = id => j <= i

\* the thread as the caller's function returns it, one application
Processed(thread) ==
  IF postProcessThread.type = "function"
  THEN [thread EXCEPT !.processed = thread.processed + 1] ELSE thread

\* what the answers of the fetches, taken fetch by fetch, give for a header
ExpectedEntry(h) ==
  IF WasFetched(h.id) THEN Processed(fetches[LastFetchOf(h.id)].value)
  ELSE knownThreads[h.id]

\* C11: the merged output is fixed by the answer each fetch got, whatever
\* the order in which the fetches were answered.
C11_CompletionOrderIrrelevant ==
  Resolved =>
    outcome.value = [p \in DOMAIN threadHeaders |-> ExpectedEntry(threadHeaders[p])]

\* C11's case: a resolved pass whose second fetch was answered before its first
C11_Witness == Resolved /\ settleOrder = <<2, 1>>

\* C12: no step of a pass changes the caller's knownThreads or threadHeaders.
C12_CacheNotMutated ==
  [][knownThreads' = knownThreads /\ threadHeaders' = threadHeaders]_vars

\* C12's case: a resolved pass with a post-process function that fetched one
\* thread and served another from a cache
C12_Witness ==
  /\ Resolved
  /\ postProcessThread.type = "function"
  /\ Len(changedThreadIds) = 1
  /\ Len(threadHeaders) = 2
  /\ DOMAIN knownThreads = ThreadIds

\* C19: with a post-process function, every fetched thread of the output has
\* been through it once, and every thread served from the cache is the
\* cached object as it was.
C19_PostProcessOncePerFetched ==
  (Resolved /\ postProcessThread.type = "function") =>
    /\ Len(outcome.value) = Len(threadHeaders)
    /\ \A p \in DOMAIN outcome.value :
         IF WasFetched(threadHeaders[p].id)
         THEN outcome.value[p].processed = 1
         ELSE outcome.value[p] = knownThreads[threadHeaders[p].id]

\* C19's case: a resolved pass with a post-process function over one fetched
\* and one cached thread
C19_Witness ==
  /\ Resolved
  /\ postProcessThread.type = "function"
  /\ \E p, q \in DOMAIN threadHeaders :
       /\ WasFetched(threadHeaders[p].id)
       /\ ~WasFetched(threadHeaders[q].id)

\* C20: each position of the output holds the fetched summary of its header's
\* id when one was fetched, else the known one; an id fetched with success
\* never shows its cached summary.
C20_FreshThenKnown ==
  Resolved =>
    /\ Len(outcome.value) = Len(threadHeaders)
    /\ \A p \in DOMAIN outcome.value :
         LET id == threadHeaders[p].id
         IN IF WasFetched(id)
            THEN /\ outcome.value[p].latestMessage = "fetched"
                 /\ \E i \in DOMAIN fetches :
                      /\ changedThreadIds[i] = id
                      /\ outcome.value[p].historyId = fetches[i].value.historyId
                 /\ id \in DOMAIN knownThreads => outcome.value[p] # knownThreads[id]
            ELSE outcome.value[p] = knownThreads[id]

\* C20's case: a resolved pass that fetched an id the cache held under
\* another historyId
C20_Witness ==
  /\ Resolved
  /\ \E p \in DOMAIN threadHeaders :
       /\ WasFetched(threadHeaders[p].id)
       /\ threadHeaders[p].id \in DOMAIN knownThreads

(***************************************************************************)
(* Claims about the token exchange, under SpecUpgrade                      *)
(***************************************************************************)
CredentialBuilt == call.op = "fetchAccountProfile" /\ upgradeResult.state = "fulfilled"

\* C13: the credential built from an upgrade response expires at the date
\* recorded on the response plus its expires_in, whenever it is built.
C13_ExpiryFromCaptureTime ==
  CredentialBuilt =>
    auth.credentials.expiry_date =
      JSNumber(upgradeResult.value.date.value + upgradeResult.value.expires_in.value)

\* C14: an exchange sends one request; a response that is not ok rejects with
\* the response itself and its body is never read; a request that does not
\* get through rejects; an ok response with a JSON body resolves with the
\* body's fields and the time at which the body was parsed as date.
C14_SingleExchange ==
  /\ upgrade.sent = (IF upgrade.phase = "none" THEN 0 ELSE 1)
  /\ upgrade.phase = "settled" =>
       IF upgrade.res.kind = "rejection"
       THEN upgradeResult.state = "rejected" /\ upgrade.read = 0
       ELSE IF ~upgrade.res.ok
       THEN upgradeResult = Rejected(upgrade.res) /\ upgrade.read = 0
       ELSE /\ upgrade.read = 1
            /\ upgrade.res.body.kind = "json" =>
                 /\ upgradeResult.state = "fulfilled"
                 /\ DOMAIN upgradeResult.value = DOMAIN upgrade.res.body.value \cup {"date"}
                 /\ \A k \in DOMAIN upgrade.res.body.value :
                      upgradeResult.value[k] = upgrade.res.body.value[k]
                 /\ upgradeResult.value.date = JSNumber(upgrade.at)

\* C14's case: an exchange answered with a token body that was parsed after
\* the clock had moved on
C14_Witness ==
  /\ upgrade.phase = "settled"
  /\ upgradeResult.state = "fulfilled"
  /\ upgrade.at > 0

(***************************************************************************)
(* Claims about the Atom feed, under SpecAtom                              *)
(***************************************************************************)
CountSettled == atom.op = "fetchGmailAtomUnreadCount" /\ atomResult.state # "pending"

InfoResolved == atom.op = "fetchGmailAtomUnreadInfo" /\ atomResult.state = "fulfilled"

\* the text is a decimal integer, white space before it allowed
NumericText(chars) ==
  LET s == SkipWhiteSpace(chars)
  IN s # <<>> /\ \A i \in DOMAIN s : s[i] \in Digits

\* the document the answered feed parses to
AnsweredFeed == ParseFromString(atom.res.body)

NoCount(doc) == Falsy(doc.fullcount) \/ ~NumericText(doc.fullcount.textContent)

\* C15: a count fetch resolves with the integer its fullcount text writes,
\* and rejects when the response is not ok, when there is no fullcount
\* element and when the text of the element is not a number.
C15_CountOrFailure ==
  CountSettled =>
    IF atom.res.kind = "rejection" \/ ~atom.res.ok THEN atomResult.state = "rejected"
    ELSE IF NoCount(AnsweredFeed) THEN atomResult.state = "rejected"
    ELSE atomResult =
           Fulfilled(JSNumber(DigitsValue(SkipWhiteSpace(AnsweredFeed.fullcount.textContent))))

\* C16: in the summary, an entry without summary has snippet "", one without
\* title has subject "", one without author email has from equal to the
\* author name alone ("" without a name too), and a feed whose fullcount is
\* missing or not a number has count 0.
C16_FeedDefaulting ==
  InfoResolved =>
    /\ Len(atomResult.value.threads) = Len(AnsweredFeed.entries)
    /\ \A i \in DOMAIN AnsweredFeed.entries :
         LET entry == AnsweredFeed.entries[i]
             message == atomResult.value.threads[i].latestMessage
         IN /\ Falsy(entry.summary) => message.snippet = JSString(<<>>)
            /\ Falsy(entry.title) => message.subject = JSString(<<>>)
            /\ Falsy(entry["author>email"]) =>
                 message.from = IF Falsy(entry["author>name"]) THEN JSString(<<>>)
                                ELSE JSString(entry["author>name"].textContent)
    /\ NoCount(AnsweredFeed) => atomResult.value.count = JSNumber(0)

\* C17: a summary fetch answered with an ok response resolves, with one
\* record per entry of the feed in the entries' order, whatever fields the
\* entries lack or hold malformed.
C17_OneRecordPerEntry ==
  (atom.op = "fetchGmailAtomUnreadInfo" /\ atom.res.kind = "response" /\ atom.res.ok) =>
    /\ atomResult.state = "fulfilled"
    /\ Len(atomResult.value.threads) = Len(AnsweredFeed.entries)
    /\ \A i \in DOMAIN AnsweredFeed.entries :
         LET entry == AnsweredFeed.entries[i]
             record == atomResult.value.threads[i]
         IN /\ record.id = IF Falsy(entry.id) THEN JSUndefined
                           ELSE JSString(entry.id.textContent)
            /\ record.latestMessage.subject = IF Falsy(entry.title) THEN JSString(<<>>)
                                              ELSE JSString(entry.title.textContent)

\* C17's case: a resolved summary of a feed of two entries, one with no
\* field at all and one whose link has an href that is no URL
C17_Witness ==
  /\ InfoResolved
  /\ Len(AnsweredFeed.entries) = 2
  /\ \E i, j \in DOMAIN AnsweredFeed.entries :
       /\ Falsy(AnsweredFeed.entries[i].id) /\ Falsy(AnsweredFeed.entries[i].link)
       /\ ~Falsy(AnsweredFeed.entries[j].link) /\ ~AnsweredFeed.entries[j].link.valid

\* the entry's modified text gives no date
NoModified(entry) == Falsy(entry.modified) \/ IsNaN(DateParse(entry.modified.textContent))

\* C18: in every record of a summary, historyId and latestMessage.historyId
\* are one string, the decimal writing of internalDate, and internalDate is
\* the milliseconds of the entry's modified date, or the time of the parse
\* when the entry has no modified date or one that does not parse.
C18_HistoryIdFromModified ==
  InfoResolved =>
    \A i \in DOMAIN atomResult.value.threads :
      LET entry == AnsweredFeed.entries[i]
          record == atomResult.value.threads[i]
          internalDate == record.latestMessage.internalDate
      IN /\ record.historyId = record.latestMessage.historyId
         /\ record.historyId.type = "string"
         /\ internalDate.type = "number"
         /\ record.historyId.chars = ToDecimal(internalDate.value)
         /\ DigitsValue(record.historyId.chars) = internalDate.value
         /\ internalDate = IF NoModified(entry) THEN JSNumber(atom.at)
                           ELSE DateParse(entry.modified.textContent)

\* C18's case: a summary parsed after the clock moved on, of an entry with
\* a modified date and an entry whose modified text is no date
C18_Witness ==
  /\ InfoResolved
  /\ atom.at > 0
  /\ \E i, j \in DOMAIN AnsweredFeed.entries :
       /\ ~NoModified(AnsweredFeed.entries[i])
       /\ ~Falsy(AnsweredFeed.entries[j].modified) /\ NoModified(AnsweredFeed.entries[j])

(***************************************************************************)
(* Claims about repeated and unchanged passes, under SpecReconcile         *)
(***************************************************************************)
\* every fetch resolved with a thread carrying the historyId of each header
\* of its id
FetchedAsListed ==
  \A i \in DOMAIN fetches :
    /\ fetches[i].state = "fulfilled"
    /\ \A p \in DOMAIN threadHeaders :
         threadHeaders[p].id = changedThreadIds[i] =>
           /\ fetches[i].value.id = threadHeaders[p].id
           /\ fetches[i].value.historyId = threadHeaders[p].historyId

\* C21: when a pass resolved with every fetched thread carrying the id and
\* historyId of its header, the same call repeated with the output as cache
\* hands over no request and resolves with the same sequence.
C21_Fixpoint ==
  (again.called /\ FetchedAsListed) =>
    /\ again.requests = <<>>
    /\ again.outcome = Fulfilled(outcome.value)

\* C21's case: a pass with a post-process function that fetched two threads
\* as listed and was repeated
C21_Witness ==
  /\ again.called
  /\ FetchedAsListed
  /\ Len(fetches) = 2
  /\ postProcessThread.type = "function"

\* C22: a pass in which no header is changed hands over no request and
\* resolves with the cached threads in header order, with or without auth.
C22_NoChangeNoNetwork ==
  (Started /\ ChangedPositions = {}) =>
    /\ requests = <<>>
    /\ fetches = <<>>
    /\ outcome = Fulfilled([p \in DOMAIN threadHeaders |->
                              knownThreads[threadHeaders[p].id]])

\* C22's case: a pass without auth over two headers the cache answers
C22_Witness ==
  /\ Started
  /\ Falsy(auth)
  /\ Len(threadHeaders) = 2
  /\ ChangedPositions = {}

(***************************************************************************)
(* Claims about CoreEmblinkStore, under SpecEmblink                        *)
(***************************************************************************)
\* an OPEN_ITEM without a mailboxId or without a serviceType has just been handled
OpenItemIncomplete(d) ==
  /\ d.action = "OPEN_ITEM"
  /\ (Falsy(d.data.mailboxId) \/ Falsy(d.data.serviceType))

\* C23: while no LOAD has replaced the records, open has its mailboxId and
\* serviceType both set or both null; and an OPEN_ITEM that lacks either
\* leaves open and compose as they were and emits no change.
C23_OpenBothOrNeither ==
  /\ [](~loaded =>
          \/ (open.mailboxId = JSNull /\ open.serviceType = JSNull)
          \/ (~Falsy(open.mailboxId) /\ ~Falsy(open.serviceType)))
  /\ [][OpenItemIncomplete(dispatch') =>
          (open' = open /\ compose' = compose /\ ~dispatch'.emitted)]_vars

\* C23's case: an OPEN_ITEM with a mailboxId and no serviceType handled
\* while an item was open
C23_Witness ==
  /\ ~loaded
  /\ dispatch.action = "OPEN_ITEM"
  /\ ~Falsy(dispatch.data.mailboxId)
  /\ Falsy(dispatch.data.serviceType)
  /\ ~Falsy(open.mailboxId)

\* a COMPOSE_NEW_MAILTO_LINK whose link is no string or lacks the prefix
NotMailto(d) ==
  /\ d.action = "COMPOSE_NEW_MAILTO_LINK"
  /\ (d.data.mailtoLink.type # "string"
        \/ ~StartsWith(d.data.mailtoLink.chars, MailtoPrefix))

ComposeActions == {"COMPOSE_NEW_MESSAGE", "COMPOSE_NEW_MAILTO_LINK", "CLEAR_COMPOSE"}

\* C24: while no LOAD has replaced the records, a compose with a payload is
\* active; CLEAR_COMPOSE leaves compose inactive with null mailboxId,
\* serviceType and payload; a link that is no string or does not start with
\* mailto: gives an active compose with null payload; and no compose action
\* changes open.
C24_ComposeRecord ==
  /\ [](~loaded => (compose.payload # JSNull => compose.active))
  /\ [][/\ dispatch'.action = "CLEAR_COMPOSE" => compose' = InitialCompose
        /\ NotMailto(dispatch') => (compose'.active /\ compose'.payload = JSNull)
        /\ dispatch'.action \in ComposeActions => open' = open]_vars

\* C24's case: a link with another prefix composed after a link with a
\* payload, while an item was open
C24_Witness ==
  /\ ~loaded
  /\ NotMailto(dispatch)
  /\ dispatch.data.mailtoLink.type = "string"
  /\ compose.active
  /\ compose.payload = JSNull
  /\ ~Falsy(open.mailboxId)

(***************************************************************************)
(* Claims about GoogleMailboxReducer, under SpecReducer                    *)
(***************************************************************************)
LastApplied == applied[Len(applied)]

\* C25: a reducer returns a change exactly when the flag flips; after any
\* sequence of the two the flag is the one the last reducer asks for; and a
\* reducer repeated returns nothing and leaves the mailbox as it is.
C25_ChangeOnlyOnFlip ==
  /\ [](applied # <<>> =>
          mailbox.isAuthenticationInvalid = (LastApplied = "invalidateAuth"))
  /\ [][/\ (change' # JSUndefined) <=>
             (mailbox'.isAuthenticationInvalid # mailbox.isAuthenticationInvalid)
        /\ (applied # <<>> /\ applied'[Len(applied')] = LastApplied) =>
             (change' = JSUndefined /\ mailbox' = mailbox)]_vars

\* C25's case: revalidateAuth called twice in a row on a mailbox that
\* invalidateAuth had marked
C25_Witness ==
  /\ Len(applied) >= 3
  /\ applied[Len(applied) - 2] = "invalidateAuth"
  /\ applied[Len(applied) - 1] = "revalidateAuth"
  /\ LastApplied = "revalidateAuth"
  /\ change = JSUndefined

====
